---------------------------- MODULE Spec2Model ----------------------------
(***************************************************************************)
(* Model of Analyze.py: the ECE corporate-partnerships analysis script.    *)
(*                                                                         *)
(* Text is a sequence of one-character strings.  A missing value (NaN) of  *)
(* a text column is the one-element sequence <<"NaN">>, which no text      *)
(* equals, since every element of a text is a single character.  A number  *)
(* or a missing number is a record [na, v].                                *)
(***************************************************************************)
EXTENDS Integers, Sequences, FiniteSets, TLC

VARIABLES
    raw,                  \* the table read_csv returned (line 19)
    df,                   \* the shared table
    df_expanded,          \* the exploded table (line 37)
    done,                 \* the stages completed so far
    early,                \* the analysis stages completed before the explode stage
    failed,               \* "" or the stage that raised
    showing,              \* plt.show() of line 287 has not returned yet
    err,                  \* "" or the exception that ended the run
    scheduler,            \* "script": stages run in file order; "any": in any order
    files,                \* the files written
    printed,              \* the messages printed
    partners_per_college, sector_freq, tier_counts, fee_df, fee_hist,
    summary, company_freq,    \* the data of the charts
    csv,                  \* the exported file
    fn, arg, ret          \* a direct call of one helper: its name, argument, result

vars == <<raw, df, df_expanded, done, early, failed, showing, err, scheduler, files, printed,
          partners_per_college, sector_freq, tier_counts, fee_df, fee_hist,
          summary, company_freq, csv, fn, arg, ret>>

-----------------------------------------------------------------------------
(* Bounds *)

MaxNameLen == 5     \* longest generated column header
MaxFeeLen  == 8     \* longest generated fee text
MaxTierLen == 4     \* longest generated tier text
MaxLevelFrags == 2  \* most fragments in a generated program-level text
MaxLevelRows == 2   \* most rows of a generated Program_Level column
MaxRows    == 2     \* most rows of an input table

-----------------------------------------------------------------------------
(* Characters and text *)

NaN == <<"NaN">>
nan_text == <<"n", "a", "n">>

Missing == [na |-> TRUE, v |-> 0]
Num(n) == [na |-> FALSE, v |-> n]

Digits == <<"0", "1", "2", "3", "4", "5", "6", "7", "8", "9">>
UpperCase == <<"A", "B", "C", "D", "E", "F", "G", "H", "I", "J", "K", "L", "M",
               "N", "O", "P", "Q", "R", "S", "T", "U", "V", "W", "X", "Y", "Z">>
LowerCase == <<"a", "b", "c", "d", "e", "f", "g", "h", "i", "j", "k", "l", "m",
               "n", "o", "p", "q", "r", "s", "t", "u", "v", "w", "x", "y", "z">>

\* The characters of the model in code-point order.
Ascii == <<"\t", "\n", "\r", " ", "$", ",", "/">> \o Digits \o UpperCase
             \o <<"_">> \o LowerCase

Range(s) == {s[i] : i \in 1..Len(s)}

\* ord(c)
CodePoints == [c \in Range(Ascii) |-> CHOOSE i \in 1..Len(Ascii) : Ascii[i] = c]
Ord(c) == CodePoints[c]

DigitSet == Range(Digits)
UpperSet == Range(UpperCase)
LowerSet == Range(LowerCase)
IsDigit(c) == c \in DigitSet
IsUpper(c) == c \in UpperSet
IsLower(c) == c \in LowerSet
IsCased(c) == IsUpper(c) \/ IsLower(c)
\* str.strip() with no argument removes whitespace.
IsSpace(c) == c \in {" ", "\t", "\n", "\r"}
IsNewline(c) == c \in {"\n", "\r"}

DigitVals == [c \in DigitSet |-> (CHOOSE i \in 1..Len(Digits) : Digits[i] = c) - 1]
DigitVal(c) == DigitVals[c]

ToLower == [c \in UpperSet |-> LowerCase[CHOOSE i \in 1..Len(UpperCase) : UpperCase[i] = c]]
ToUpper == [c \in LowerSet |-> UpperCase[CHOOSE i \in 1..Len(LowerCase) : LowerCase[i] = c]]
LowerChar(c) == IF IsUpper(c) THEN ToLower[c] ELSE c
UpperChar(c) == IF IsLower(c) THEN ToUpper[c] ELSE c

\* pd.isna(value)
isna(value) == value = NaN

\* str(value): the text of a text, "nan" of a missing value.
str(value) == IF isna(value) THEN nan_text ELSE value

\* str.lower()
lower(text) == [i \in 1..Len(text) |-> LowerChar(text[i])]

\* str.title(): a cased character is upper case after an uncased one (or at
\* the start) and lower case after a cased one.
title(text) ==
    [i \in 1..Len(text) |->
        IF i > 1 /\ IsCased(text[i - 1]) THEN LowerChar(text[i]) ELSE UpperChar(text[i])]

RECURSIVE lstrip(_)
lstrip(text) ==
    IF text # <<>> /\ IsSpace(Head(text)) THEN lstrip(Tail(text)) ELSE text

RECURSIVE rstrip(_)
rstrip(text) ==
    IF text # <<>> /\ IsSpace(text[Len(text)])
    THEN rstrip(SubSeq(text, 1, Len(text) - 1))
    ELSE text

\* str.strip()
strip(text) == rstrip(lstrip(text))

\* str.split(","): the pieces between the commas; always at least one piece.
RECURSIVE SplitFrom(_, _, _)
SplitFrom(text, i, piece) ==
    IF i > Len(text) THEN <<piece>>
    ELSE IF text[i] = "," THEN <<piece>> \o SplitFrom(text, i + 1, <<>>)
    ELSE SplitFrom(text, i + 1, Append(piece, text[i]))

split(text) == SplitFrom(text, 1, <<>>)

\* str.replace(old, new) for a one-character old.
RECURSIVE replace(_, _, _)
replace(text, old, new) ==
    IF text = <<>> THEN <<>>
    ELSE (IF Head(text) = old THEN new ELSE <<Head(text)>>) \o replace(Tail(text), old, new)

\* re.sub(r"[\n\r]+", " ", text): each maximal run of line breaks becomes one space.
RECURSIVE collapse_newlines(_)
collapse_newlines(text) ==
    IF text = <<>> THEN <<>>
    ELSE IF IsNewline(Head(text))
         THEN IF Len(text) > 1 /\ IsNewline(text[2])
              THEN collapse_newlines(Tail(text))
              ELSE <<" ">> \o collapse_newlines(Tail(text))
         ELSE <<Head(text)>> \o collapse_newlines(Tail(text))

\* Lexicographic order by code point, the order of Python's str.
RECURSIVE StrLess(_, _)
StrLess(a, b) ==
    IF b = <<>> THEN FALSE
    ELSE IF a = <<>> THEN TRUE
    ELSE IF Head(a) = Head(b) THEN StrLess(Tail(a), Tail(b))
    ELSE Ord(Head(a)) < Ord(Head(b))

-----------------------------------------------------------------------------
(* The helpers of the script *)

\* Mutant of clean_column_name: the header is stripped last, after its
\* outer spaces have become underscores.
clean_column_name_strip_last(header) ==
    strip(replace(collapse_newlines(header), " ", <<"_">>))

\* Line 22: the cleaned name of a column header.
clean_column_name(header) ==
    replace(collapse_newlines(strip(header)), " ", <<"_">>)

\* Line 26: the cleaned value of a cell of an object column.
clean_value(value) == strip(collapse_newlines(str(value)))

\* Mutant of extract_num_tiers: empty pieces are not counted.
extract_num_tiers_nonempty(value) ==
    IF isna(value) THEN Missing
    ELSE LET NotEmpty(piece) == piece # <<>>
         IN  Num(Len(SelectSeq(split(lower(str(value))), NotEmpty)))

\* Lines 112-116.
extract_num_tiers(value) ==
    IF isna(value) THEN Missing
    ELSE LET text == lower(str(value))
         IN  Num(Len(split(text)))

\* re.search(r"(\d{2,7})", value): the match starting at i takes as many
\* digits as there are, up to 7.
RECURSIVE DigitsAt(_, _, _)
DigitsAt(text, i, most) ==
    IF most = 0 \/ i > Len(text) \/ ~IsDigit(text[i]) THEN 0
    ELSE 1 + DigitsAt(text, i + 1, most - 1)

MinFeeDigits == 2
MaxFeeDigits == 7

RECURSIVE SearchFee(_, _)
SearchFee(text, i) ==
    IF i > Len(text) THEN 0
    ELSE IF DigitsAt(text, i, MaxFeeDigits) >= MinFeeDigits THEN i
    ELSE SearchFee(text, i + 1)

\* float(digits)
RECURSIVE ToNumber(_)
ToNumber(digits) ==
    IF digits = <<>> THEN 0
    ELSE 10 * ToNumber(SubSeq(digits, 1, Len(digits) - 1)) + DigitVal(digits[Len(digits)])

\* Mutant of parse_fee: the commas are not removed.
parse_fee_keeps_commas(value) ==
    IF isna(value) THEN Missing
    ELSE LET text == str(value)
             i == SearchFee(text, 1)
         IN  IF i # 0
             THEN Num(ToNumber(SubSeq(text, i, i + DigitsAt(text, i, MaxFeeDigits) - 1)))
             ELSE Missing

\* Lines 161-173 and 189-200 (the two definitions are the same).
parse_fee(value) ==
    IF isna(value) THEN Missing
    ELSE LET text == replace(str(value), ",", <<>>)
             i == SearchFee(text, 1)
         IN  IF i # 0
             THEN Num(ToNumber(SubSeq(text, i, i + DigitsAt(text, i, MaxFeeDigits) - 1)))
             ELSE Missing

\* "college" in text
RECURSIVE Contains(_, _)
Contains(text, word) ==
    IF Len(text) < Len(word) THEN FALSE
    ELSE IF SubSeq(text, 1, Len(word)) = word THEN TRUE
    ELSE Contains(Tail(text), word)

college == <<"c", "o", "l", "l", "e", "g", "e">>
ECE_Programs == <<"E", "C", "E", " ", "P", "r", "o", "g", "r", "a", "m", "s">>
Departmental_Programs ==
    <<"D", "e", "p", "a", "r", "t", "m", "e", "n", "t", "a", "l", " ", "/", " ", "G", "e", "n",
      "e", "r", "a", "l", " ", "C", "o", "l", "l", "e", "g", "e", " ", "P", "r", "o", "g", "r",
      "a", "m", "s">>

\* Mutant of categorize_level: the text is not lower-cased.
categorize_level_case_sensitive(val) ==
    IF Contains(str(val), college) THEN ECE_Programs ELSE Departmental_Programs

\* Lines 220-226.
categorize_level(val) ==
    LET text == lower(str(val))
    IN  IF Contains(text, college) THEN ECE_Programs ELSE Departmental_Programs

-----------------------------------------------------------------------------
(* Tables *)

(***************************************************************************)
(* A table is [cols, rows]: cols the column names in order, rows a         *)
(* sequence of [index, cells] with cells[k] the cell of column cols[k].    *)
(***************************************************************************)

Corporate_Partners ==
    <<"C", "o", "r", "p", "o", "r", "a", "t", "e", "_", "P", "a", "r", "t", "n", "e", "r", "s">>
College == <<"C", "o", "l", "l", "e", "g", "e">>
Tiers_of_Membership ==
    <<"T", "i", "e", "r", "s", "_", "o", "f", "_", "M", "e", "m", "b", "e", "r", "s", "h", "i",
      "p">>
Fee_Info == <<"F", "e", "e", "_", "I", "n", "f", "o">>
Program_Level == <<"P", "r", "o", "g", "r", "a", "m", "_", "L", "e", "v", "e", "l">>
Num_Tiers == <<"N", "u", "m", "_", "T", "i", "e", "r", "s">>
Level_Group == <<"L", "e", "v", "e", "l", "_", "G", "r", "o", "u", "p">>
sector == <<"s", "e", "c", "t", "o", "r">>
industry == <<"i", "n", "d", "u", "s", "t", "r", "y">>

EmptyTable == [cols |-> <<>>, rows |-> <<>>]

HasColumn(t, name) == name \in Range(t.cols)
ColumnIndex(t, name) == CHOOSE k \in 1..Len(t.cols) : t.cols[k] = name
Column(t, name) == [r \in 1..Len(t.rows) |-> t.rows[r].cells[ColumnIndex(t, name)]]

\* t[name] = values: a new column is added last.
AddColumn(t, name, values) ==
    [cols |-> Append(t.cols, name),
     rows |-> [r \in 1..Len(t.rows) |->
                 [t.rows[r] EXCEPT !.cells = Append(@, values[r])]]]

\* read_csv gives a column the dtype object when one of its cells is text;
\* a column with no text is float64 (all missing).
IsObject(t, k) == \E r \in 1..Len(t.rows) : ~isna(t.rows[r].cells[k])

RECURSIVE Flatten(_)
Flatten(seqs) == IF seqs = <<>> THEN <<>> ELSE Head(seqs) \o Flatten(Tail(seqs))

\* The distinct values of a sequence in order of first appearance.
RECURSIVE Distinct(_)
Distinct(s) ==
    IF s = <<>> THEN <<>>
    ELSE LET d == Distinct(SubSeq(s, 1, Len(s) - 1))
         IN  IF s[Len(s)] \in Range(d) THEN d ELSE Append(d, s[Len(s)])

CountOf(s, v) == Cardinality({i \in 1..Len(s) : s[i] = v})

\* sort_values(ascending=False) of [key, count] records: largest count
\* first, equal counts in their given order.
RECURSIVE InsertDescending(_, _)
InsertDescending(s, x) ==
    IF s = <<>> THEN <<x>>
    ELSE IF Head(s).count >= x.count THEN <<Head(s)>> \o InsertDescending(Tail(s), x)
    ELSE <<x>> \o s

RECURSIVE sort_values_descending(_)
sort_values_descending(s) ==
    IF s = <<>> THEN <<>>
    ELSE InsertDescending(sort_values_descending(SubSeq(s, 1, Len(s) - 1)), s[Len(s)])

\* Series.value_counts(): a count per distinct value, largest first.
value_counts(s) ==
    LET d == Distinct(s)
    IN  sort_values_descending([i \in 1..Len(d) |-> [key |-> d[i], count |-> CountOf(s, d[i])]])

\* sort_index() of [key, count] records with number keys.
RECURSIVE InsertByNumber(_, _)
InsertByNumber(s, x) ==
    IF s = <<>> THEN <<x>>
    ELSE IF Head(s).key <= x.key THEN <<Head(s)>> \o InsertByNumber(Tail(s), x)
    ELSE <<x>> \o s

RECURSIVE sort_index(_)
sort_index(s) ==
    IF s = <<>> THEN <<>>
    ELSE InsertByNumber(sort_index(SubSeq(s, 1, Len(s) - 1)), s[Len(s)])

\* The group keys of groupby, sorted as text.
RECURSIVE InsertByText(_, _)
InsertByText(s, x) ==
    IF s = <<>> THEN <<x>>
    ELSE IF StrLess(x, Head(s)) THEN <<x>> \o s
    ELSE <<Head(s)>> \o InsertByText(Tail(s), x)

RECURSIVE SortText(_)
SortText(s) ==
    IF s = <<>> THEN <<>>
    ELSE InsertByText(SortText(SubSeq(s, 1, Len(s) - 1)), s[Len(s)])

-----------------------------------------------------------------------------
(* The stages, as functions of the tables they read *)

\* Lines 22-28.
CleanTable(t) ==
    LET cleaned ==
            [r \in 1..Len(t.rows) |->
                [t.rows[r] EXCEPT !.cells =
                    [k \in 1..Len(t.cols) |->
                        IF IsObject(t, k) THEN clean_value(@[k]) ELSE @[k]]]]
        NotAllMissing(row) == \E k \in 1..Len(row.cells) : ~isna(row.cells[k])
    IN  [cols |-> [k \in 1..Len(t.cols) |-> clean_column_name(t.cols[k])],
         rows |-> SelectSeq(cleaned, NotAllMissing)]

\* Mutant of ExplodeRow: the pieces are not stripped.
ExplodeRow_unstripped(row, k) ==
    IF isna(row.cells[k]) THEN <<row>>
    ELSE LET pieces == split(row.cells[k])
         IN  [p \in 1..Len(pieces) |-> [row EXCEPT !.cells[k] = pieces[p]]]

\* Lines 37-38: one row per piece of Corporate_Partners, the piece stripped.
ExplodeRow(row, k) ==
    IF isna(row.cells[k]) THEN <<row>>
    ELSE LET pieces == split(row.cells[k])
         IN  [p \in 1..Len(pieces) |-> [row EXCEPT !.cells[k] = strip(pieces[p])]]

ExplodeTable(t) ==
    LET k == ColumnIndex(t, Corporate_Partners)
    IN  [cols |-> t.cols,
         rows |-> Flatten([r \in 1..Len(t.rows) |-> ExplodeRow(t.rows[r], k)])]

\* Lines 46-52.
PartnersPerCollege(t) ==
    LET colleges == Column(t, College)
        partners == Column(t, Corporate_Partners)
        NotMissing(v) == ~isna(v)
        keys == SortText(Distinct(SelectSeq(colleges, NotMissing)))
        Count(key) == Cardinality({r \in 1..Len(t.rows) :
                                      colleges[r] = key /\ ~isna(partners[r])})
    IN  sort_values_descending([i \in 1..Len(keys) |-> [key |-> keys[i], count |-> Count(keys[i])]])

\* Line 68.
possible_sector_cols(t) ==
    LET IsSector(c) == Contains(lower(c), sector) \/ Contains(lower(c), industry)
    IN  SelectSeq(t.cols, IsSector)

\* Mutant of FillSector: a missing sector becomes the text "nan".
FillSector_with_text(t) ==
    LET k == ColumnIndex(t, possible_sector_cols(t)[1])
    IN  [t EXCEPT !.rows =
            [r \in 1..Len(t.rows) |->
                [t.rows[r] EXCEPT !.cells[k] = IF isna(@) THEN nan_text ELSE @]]]

\* Line 74: fillna("") on the sector column.
FillSector(t) ==
    LET k == ColumnIndex(t, possible_sector_cols(t)[1])
    IN  [t EXCEPT !.rows =
            [r \in 1..Len(t.rows) |->
                [t.rows[r] EXCEPT !.cells[k] = IF isna(@) THEN <<>> ELSE @]]]

\* Mutant of SectorFrequency: the empty pieces are kept.
SectorFrequency_keeps_empty(t) ==
    LET texts == Column(t, possible_sector_cols(t)[1])
        Pieces(text) == LET ps == split(str(text)) IN [p \in 1..Len(ps) |-> strip(ps[p])]
    IN  value_counts(Flatten([r \in 1..Len(texts) |-> Pieces(texts[r])]))

\* Lines 75-88, of the table FillSector returned.
SectorFrequency(t) ==
    LET texts == Column(t, possible_sector_cols(t)[1])
        Pieces(text) == LET ps == split(str(text)) IN [p \in 1..Len(ps) |-> strip(ps[p])]
        NotEmpty(piece) == piece # <<>>
        sector_split == Flatten([r \in 1..Len(texts) |-> Pieces(texts[r])])
    IN  value_counts(SelectSeq(sector_split, NotEmpty))

\* Line 119.
NumTiersColumn(t) ==
    LET tiers == Column(t, Tiers_of_Membership)
    IN  [r \in 1..Len(tiers) |-> extract_num_tiers(tiers[r])]

\* Lines 122-130.
TierCounts(t) ==
    LET nums == NumTiersColumn(t)
        NotMissing(n) == ~n.na
        kept == SelectSeq(nums, NotMissing)
        counted == value_counts([i \in 1..Len(kept) |-> kept[i].v])
    IN  sort_index(counted)

\* Lines 160, 175 and 179: the rows whose Fee_Info is not missing, with the
\* two columns the box plot reads.
FeeBoxData(t) ==
    LET k == ColumnIndex(t, Fee_Info)
        c == ColumnIndex(t, College)
        HasFee(row) == ~isna(row.cells[k])
        kept == SelectSeq(t.rows, HasFee)
    IN  [r \in 1..Len(kept) |->
            [index |-> kept[r].index, College |-> kept[r].cells[c],
             Fee |-> parse_fee(kept[r].cells[k])]]

\* Lines 203-206: the fees that are not missing.
FeeHistData(t) ==
    LET fees == Column(t, Fee_Info)
        parsed == [r \in 1..Len(fees) |-> parse_fee(fees[r])]
        NotMissing(n) == ~n.na
        kept == SelectSeq(parsed, NotMissing)
    IN  [i \in 1..Len(kept) |-> kept[i].v]

\* Line 228, of a column of Program_Level values.
LevelGroup(levels) == [r \in 1..Len(levels) |-> categorize_level(levels[r])]

\* Lines 229-230.
LevelSummary(levels) == value_counts(LevelGroup(levels))

\* Lines 259-265.
CompanyNames(partners) ==
    LET names == split(str(partners))
        clean_name == [i \in 1..Len(names) |-> title(strip(names[i]))]
        NotEmpty(name) == name # <<>>
    IN  SelectSeq(clean_name, NotEmpty)

CompanyList(t) ==
    LET NotMissing(v) == ~isna(v)
        partners == SelectSeq(Column(t, Corporate_Partners), NotMissing)
    IN  Flatten([i \in 1..Len(partners) |-> CompanyNames(partners[i])])

\* Line 267.
CompanyFrequency(t) == value_counts(CompanyList(t))

\* The digits of a natural number.
RECURSIVE FormatNumber(_)
FormatNumber(n) ==
    IF n < 10 THEN <<Digits[n + 1]>> ELSE Append(FormatNumber(n \div 10), Digits[(n % 10) + 1])

\* Line 294: to_csv(index=False).  The file is modelled by the fields a CSV
\* reader gets back from it: a missing value is written as the empty field.
FormatCell(name, cell) ==
    IF name = Num_Tiers
    THEN IF cell.na THEN <<>> ELSE FormatNumber(cell.v)
    ELSE IF isna(cell) THEN <<>> ELSE cell

to_csv(t) ==
    [header |-> t.cols,
     records |-> [r \in 1..Len(t.rows) |->
                    [k \in 1..Len(t.cols) |-> FormatCell(t.cols[k], t.rows[r].cells[k])]]]

-----------------------------------------------------------------------------
(* Inputs *)

H_College == <<" ", "C", "o", "l", "l", "e", "g", "e", " ", "\n">>
H_Corporate_Partners ==
    <<"C", "o", "r", "p", "o", "r", "a", "t", "e", " ", "P", "a", "r", "t", "n", "e", "r", "s">>
H_Sector == <<"T", "e", "c", "h", "n", "o", "l", "o", "g", "y", "\n", "S", "e", "c", "t", "o", "r">>
H_Industry == <<"I", "n", "d", "u", "s", "t", "r", "y">>
H_Tiers ==
    <<"T", "i", "e", "r", "s", " ", "o", "f", " ", "M", "e", "m", "b", "e", "r", "s", "h", "i",
      "p", " ">>
H_Fee_Info == <<"F", "e", "e", " ", "I", "n", "f", "o">>
H_Program_Level == <<"P", "r", "o", "g", "r", "a", "m", "\r", "\n", "L", "e", "v", "e", "l">>
V_MIT == <<"M", "I", "T">>
V_UCLA == <<"U", "C", "L", "A", " ">>
V_ABC == <<"A", ",", " ", "B", ",", " ", "C">>
V_acme_B == <<" ", "a", "c", "m", "e", " ", ",", "B">>
V_comma == <<",">>
V_AI_Chips == <<"A", "I", ",", " ", "C", "h", "i", "p", "s">>
V_Chips_comma == <<"C", "h", "i", "p", "s", ",", "\n">>
V_Chips == <<"C", "h", "i", "p", "s">>
V_blank_comma == <<" ", ",">>
V_Bronze_Silver_Gold ==
    <<"B", "r", "o", "n", "z", "e", ",", " ", "S", "i", "l", "v", "e", "r", ",", " ", "G", "o",
      "l", "d">>
V_Gold == <<"G", "o", "l", "d">>
V_1200_per_year == <<"$", "1", ",", "2", "0", "0", " ", "p", "e", "r", " ", "y", "e", "a", "r">>
V_Contact_for_pricing ==
    <<"C", "o", "n", "t", "a", "c", "t", " ", "f", "o", "r", " ", "p", "r", "i", "c", "i", "n",
      "g">>
V_25000 == <<"2", "5", "0", "0", "0">>
V_College == <<"C", "o", "l", "l", "e", "g", "e">>
V_Department == <<"D", "e", "p", "a", "r", "t", "m", "e", "n", "t">>
V_ECE_COLLEGE == <<"E", "C", "E", " ", "C", "O", "L", "L", "E", "G", "E">>
F_col == <<"c", "o", "l">>
F_lege == <<"l", "e", "g", "e">>
F_COL == <<"C", "O", "L">>
F_Lege == <<"L", "e", "g", "e">>
F_of == <<" ", "o", "f", " ">>

\* The headers of the input file, in file order.
Headers == <<H_College, H_Corporate_Partners, H_Sector, H_Industry, H_Tiers,
             H_Fee_Info, H_Program_Level>>

\* The rows an input file is made of: a cell per header.
RowKinds ==
    << <<V_MIT, V_ABC, V_AI_Chips, V_Chips, V_Bronze_Silver_Gold, V_1200_per_year, V_College>>,
       <<V_UCLA, V_acme_B, V_Chips_comma, NaN, V_Gold, V_Contact_for_pricing, V_Department>>,
       <<NaN, NaN, NaN, NaN, NaN, NaN, NaN>>,
       <<V_MIT, V_comma, NaN, V_blank_comma, NaN, NaN, V_ECE_COLLEGE>> >>

\* The elements of s at the positions in S, in order.
RECURSIVE Pick(_, _, _)
Pick(s, S, i) ==
    IF i > Len(s) THEN <<>>
    ELSE (IF i \in S THEN <<s[i]>> ELSE <<>>) \o Pick(s, S, i + 1)

\* read_csv of a file with the headers at S and the rows of kinds sel.
read_csv(S, sel) ==
    [cols |-> Pick(Headers, S, 1),
     rows |-> [r \in 1..Len(sel) |-> [index |-> r - 1, cells |-> Pick(RowKinds[sel[r]], S, 1)]]]

\* The header choices that leave out at most `absent` headers, and the row
\* choices of at most `most` rows.
HeaderChoices(absent) ==
    {S \in SUBSET (1..Len(Headers)) : S # {} /\ Cardinality(S) >= Len(Headers) - absent}
RowChoices(most) == UNION {[1..n -> 1..Len(RowKinds)] : n \in 1..most}

InputTables(headers, rows) == {read_csv(S, sel) : S \in headers, sel \in rows}

\* All texts of at most n characters of the set chars.
Texts(chars, n) == UNION {[1..m -> chars] : m \in 0..n}

HeaderInputs == Texts({"a", " ", "\n", "\r", "\t"}, MaxNameLen) \cup {H_College, H_Fee_Info}
FeeInputs ==
    Texts({"1", "2", ",", "x"}, MaxFeeLen)
        \cup {NaN, V_1200_per_year, V_Contact_for_pricing, V_25000}
TierInputs == Texts({"a", "B", ",", " "}, MaxTierLen) \cup {NaN, V_Bronze_Silver_Gold, V_Gold}

LevelFragments == {F_col, F_lege, F_COL, F_Lege, F_of}
LevelTexts ==
    {Flatten(fs) : fs \in Texts(LevelFragments, MaxLevelFrags)}
        \cup {NaN, V_College, V_Department, V_ECE_COLLEGE}
LevelCells == {NaN, V_College, V_Department, V_ECE_COLLEGE}
LevelInputs ==
    {<<t>> : t \in LevelTexts}
        \cup UNION {[1..n -> LevelCells] : n \in 1..MaxLevelRows}

-----------------------------------------------------------------------------
(* The run of the script *)

ScriptOrder == <<"clean", "explode", "partners_per_college", "sector_frequency",
                 "membership_tiers", "membership_fees", "program_level",
                 "company_frequency", "export">>

EmptyCsv == [header |-> <<>>, records |-> <<>>]

InitRun(tables, how) ==
    /\ raw \in tables
    /\ df = raw
    /\ df_expanded = EmptyTable
    /\ done = {}
    /\ early = {}
    /\ failed = ""
    /\ showing = FALSE
    /\ err = ""
    /\ scheduler = how
    /\ files = {}
    /\ printed = {}
    /\ partners_per_college = <<>>
    /\ sector_freq = <<>>
    /\ tier_counts = <<>>
    /\ fee_df = <<>>
    /\ fee_hist = <<>>
    /\ summary = <<>>
    /\ company_freq = <<>>
    /\ csv = EmptyCsv
    /\ fn = "none"
    /\ arg = <<>>
    /\ ret = <<>>

Init == InitRun(InputTables(HeaderChoices(Len(Headers)), RowChoices(MaxRows)), "script")

\* A stage runs once, while no exception has ended the run: in file order
\* under the script, in any order after load-and-clean otherwise.
Turn(stage) ==
    /\ fn = "none"
    /\ err = ""
    /\ ~showing
    /\ stage \notin done
    /\ IF scheduler = "script"
       THEN Cardinality(done) < Len(ScriptOrder) /\ ScriptOrder[Cardinality(done) + 1] = stage
       ELSE (stage = "clean") <=> (done = {})

\* df_expanded is bound by line 37 only.
Bound == "explode" \in done

\* The stage completes.
Completes(stage) ==
    /\ done' = done \cup {stage}
    /\ early' = IF "explode" \in done \/ stage \in {"clean", "explode"}
                THEN early ELSE early \cup {stage}
    /\ failed' = failed
    /\ showing' = FALSE
    /\ err' = err

\* The stage raises, which ends the run.
Raise(stage, exception) ==
    /\ err' = exception
    /\ failed' = stage
    /\ UNCHANGED <<done, early, showing>>

\* The stage waits in plt.show() until the figure windows are closed; a
\* backend without windows returns at once.
Shows ==
    /\ showing' = TRUE
    /\ UNCHANGED <<done, early, failed, err>>

\* Lines 19-31.
LoadAndClean ==
    /\ Turn("clean")
    /\ df' = CleanTable(df)
    /\ Completes("clean")
    /\ printed' = printed \cup {"Loaded dataset"}
    /\ UNCHANGED <<raw, df_expanded, scheduler, files, partners_per_college,
                   sector_freq, tier_counts, fee_df, fee_hist, summary, company_freq,
                   csv, fn, arg, ret>>

\* Mutant of Explode: a missing Corporate_Partners column raises nothing
\* and the table is passed on as it is.
Explode_unchecked ==
    /\ Turn("explode")
    /\ df_expanded' = IF HasColumn(df, Corporate_Partners) THEN ExplodeTable(df) ELSE df
    /\ Completes("explode")
    /\ UNCHANGED <<raw, df, scheduler, files, printed, partners_per_college,
                   sector_freq, tier_counts, fee_df, fee_hist, summary, company_freq,
                   csv, fn, arg, ret>>

\* Lines 36-40.  The .str accessor of line 37 raises AttributeError on a
\* column that is not of dtype object.
Explode ==
    /\ Turn("explode")
    /\ IF ~HasColumn(df, Corporate_Partners)
       THEN Raise("explode", "KeyError") /\ UNCHANGED df_expanded
       ELSE IF ~IsObject(df, ColumnIndex(df, Corporate_Partners))
       THEN Raise("explode", "AttributeError") /\ UNCHANGED df_expanded
       ELSE /\ df_expanded' = ExplodeTable(df)
            /\ Completes("explode")
    /\ UNCHANGED <<raw, df, scheduler, files, printed, partners_per_college,
                   sector_freq, tier_counts, fee_df, fee_hist, summary, company_freq,
                   csv, fn, arg, ret>>

\* Lines 45-63.
PartnersPerCollegeChart ==
    /\ Turn("partners_per_college")
    /\ IF ~Bound
       THEN Raise("partners_per_college", "NameError")
            /\ UNCHANGED <<partners_per_college, files, printed>>
       ELSE /\ Completes("partners_per_college")
            /\ IF HasColumn(df_expanded, College)
               THEN /\ partners_per_college' = PartnersPerCollege(df_expanded)
                    /\ files' = files \cup {"partners_per_college.png"}
                    /\ UNCHANGED printed
               ELSE /\ printed' = printed \cup {"Skipping partners-per-college chart"}
                    /\ UNCHANGED <<partners_per_college, files>>
    /\ UNCHANGED <<raw, df, df_expanded, scheduler, sector_freq, tier_counts, fee_df,
                   fee_hist, summary, company_freq, csv, fn, arg, ret>>

\* Lines 68-105.
SectorFrequencyChart ==
    /\ Turn("sector_frequency")
    /\ IF ~Bound
       THEN Raise("sector_frequency", "NameError")
            /\ UNCHANGED <<df_expanded, sector_freq, files, printed>>
       ELSE /\ Completes("sector_frequency")
            /\ IF possible_sector_cols(df_expanded) # <<>>
               THEN /\ df_expanded' = FillSector(df_expanded)
                    /\ sector_freq' = SectorFrequency(df_expanded')
                    /\ IF sector_freq' # <<>>
                       THEN /\ files' = files \cup {"sector_frequency.png"}
                            /\ printed' = printed \cup {"Using column"}
                       ELSE /\ printed' = printed \cup {"Using column",
                                                        "No data available to plot sector frequencies."}
                            /\ UNCHANGED files
               ELSE /\ printed' = printed \cup {"Skipping sector analysis"}
                    /\ UNCHANGED <<df_expanded, sector_freq, files>>
    /\ UNCHANGED <<raw, df, scheduler, partners_per_college, tier_counts, fee_df,
                   fee_hist, summary, company_freq, csv, fn, arg, ret>>

\* Lines 111-154.
MembershipTiers ==
    /\ Turn("membership_tiers")
    /\ Completes("membership_tiers")
    /\ IF HasColumn(df, Tiers_of_Membership)
       THEN /\ df' = AddColumn(df, Num_Tiers, NumTiersColumn(df))
            /\ tier_counts' = TierCounts(df)
            /\ files' = files \cup {"membership_tier_count_distribution.png"}
            /\ printed' = printed \cup {"Saved: membership_tier_count_distribution.png"}
       ELSE /\ printed' = printed \cup {"Column 'Tiers_of_Membership' not found!"}
            /\ UNCHANGED <<df, tier_counts, files>>
    /\ UNCHANGED <<raw, df_expanded, scheduler, partners_per_college, sector_freq,
                   fee_df, fee_hist, summary, company_freq, csv, fn, arg, ret>>

\* Lines 159-213.  The box plot of line 179 reads the College column and
\* raises ValueError when the table has none.
MembershipFees ==
    /\ Turn("membership_fees")
    /\ IF HasColumn(df, Fee_Info)
       THEN IF ~HasColumn(df, College)
            THEN Raise("membership_fees", "ValueError")
                 /\ UNCHANGED <<fee_df, fee_hist, files, printed>>
            ELSE /\ Completes("membership_fees")
                 /\ fee_df' = FeeBoxData(df)
                 /\ fee_hist' = FeeHistData(df)
                 /\ files' = files \cup {"membership_fees.png", "membership_fees_dist.png"}
                 /\ printed' = printed \cup {"Saved: membership_fees_dist.png"}
       ELSE /\ Completes("membership_fees")
            /\ printed' = printed \cup {"Skipping fee analysis"}
            /\ UNCHANGED <<fee_df, fee_hist, files>>
    /\ UNCHANGED <<raw, df, df_expanded, scheduler, partners_per_college, sector_freq,
                   tier_counts, summary, company_freq, csv, fn, arg, ret>>

\* Lines 219-253.
ProgramLevel ==
    /\ Turn("program_level")
    /\ Completes("program_level")
    /\ IF HasColumn(df, Program_Level)
       THEN /\ df' = AddColumn(df, Level_Group, LevelGroup(Column(df, Program_Level)))
            /\ summary' = LevelSummary(Column(df, Program_Level))
            /\ files' = files \cup {"dept_vs_ece_comparison.png"}
            /\ printed' = printed \cup {"Saved: dept_vs_ece_comparison.png"}
       ELSE /\ printed' = printed \cup {"Column 'Program_Level' not found!"}
            /\ UNCHANGED <<df, summary, files>>
    /\ UNCHANGED <<raw, df_expanded, scheduler, partners_per_college, sector_freq,
                   tier_counts, fee_df, fee_hist, company_freq, csv, fn, arg, ret>>

\* Lines 259-287.  With no company at all, max() of the empty column is
\* NaN and range() of line 282 raises TypeError.
CompanyFrequencyChart ==
    /\ Turn("company_frequency")
    /\ IF ~HasColumn(df, Corporate_Partners)
       THEN Raise("company_frequency", "KeyError")
            /\ UNCHANGED <<company_freq, printed>>
       ELSE /\ company_freq' = CompanyFrequency(df)
            /\ printed' = printed \cup {"Unique companies found"}
            /\ IF company_freq' = <<>>
               THEN Raise("company_frequency", "TypeError")
               ELSE Shows
    /\ UNCHANGED <<raw, df, df_expanded, scheduler, files, partners_per_college,
                   sector_freq, tier_counts, fee_df, fee_hist, summary, csv, fn, arg, ret>>

\* Lines 287-289: plt.show() returns and the figure current then, a new
\* and empty one, is saved under the chart's file name.
CompanyFrequencySave ==
    /\ fn = "none"
    /\ err = ""
    /\ showing
    /\ Completes("company_frequency")
    /\ files' = files \cup {"company_frequency_distribution.png"}
    /\ UNCHANGED <<raw, df, df_expanded, scheduler, printed, partners_per_college,
                   sector_freq, tier_counts, fee_df, fee_hist, summary, company_freq,
                   csv, fn, arg, ret>>

\* Lines 294-295.
Export ==
    /\ Turn("export")
    /\ IF ~Bound
       THEN Raise("export", "NameError") /\ UNCHANGED <<csv, files, printed>>
       ELSE /\ Completes("export")
            /\ csv' = to_csv(df_expanded)
            /\ files' = files \cup {"ece_partnerships_cleaned.csv"}
            /\ printed' = printed \cup {"Cleaned dataset saved"}
    /\ UNCHANGED <<raw, df, df_expanded, scheduler, partners_per_college, sector_freq,
                   tier_counts, fee_df, fee_hist, summary, company_freq, fn, arg, ret>>

Next ==
    \/ LoadAndClean
    \/ Explode
    \/ PartnersPerCollegeChart
    \/ SectorFrequencyChart
    \/ MembershipTiers
    \/ MembershipFees
    \/ ProgramLevel
    \/ CompanyFrequencyChart
    \/ CompanyFrequencySave
    \/ Export

Spec == Init /\ [][Next]_vars

-----------------------------------------------------------------------------
(* The stages in any order *)

\* One-row tables that lack at most MaxAbsent of the headers, run in the
\* script order and in any order.
MaxAbsent == 2

InitAnyOrder ==
    \E how \in {"script", "any"} :
        InitRun(InputTables(HeaderChoices(MaxAbsent), RowChoices(1)), how)

SpecAnyOrder == InitAnyOrder /\ [][Next]_vars

-----------------------------------------------------------------------------
(* Direct calls of the helpers *)

Helpers == {"clean_column_name", "parse_fee", "extract_num_tiers", "categorize_level"}

InputsOf(helper) ==
    CASE helper = "clean_column_name" -> HeaderInputs
      [] helper = "parse_fee" -> FeeInputs
      [] helper = "extract_num_tiers" -> TierInputs
      [] helper = "categorize_level" -> LevelInputs

InitCalls ==
    /\ fn \in Helpers
    /\ arg \in InputsOf(fn)
    /\ ret = <<>>
    /\ done = {}
    /\ early = {}
    /\ failed = ""
    /\ showing = FALSE
    /\ raw = EmptyTable
    /\ df = EmptyTable
    /\ df_expanded = EmptyTable
    /\ err = ""
    /\ scheduler = "call"
    /\ files = {}
    /\ printed = {}
    /\ partners_per_college = <<>>
    /\ sector_freq = <<>>
    /\ tier_counts = <<>>
    /\ fee_df = <<>>
    /\ fee_hist = <<>>
    /\ summary = <<>>
    /\ company_freq = <<>>
    /\ csv = EmptyCsv

Returns(helper, value) ==
    /\ fn = helper
    /\ done = {}
    /\ ret' = value
    /\ done' = {helper}
    /\ UNCHANGED <<raw, df, df_expanded, early, failed, showing, err, scheduler, files, printed,
                   partners_per_college, sector_freq, tier_counts, fee_df, fee_hist,
                   summary, company_freq, csv, fn, arg>>

\* Line 22 on one header.
CallCleanColumnName == Returns("clean_column_name", clean_column_name(arg))

\* Lines 175 and 204 on one value.
CallParseFee == Returns("parse_fee", parse_fee(arg))

\* Line 119 on one value.
CallExtractNumTiers == Returns("extract_num_tiers", extract_num_tiers(arg))

\* Lines 228-230 on one Program_Level column.
CallCategorizeLevel ==
    Returns("categorize_level", [Level_Group |-> LevelGroup(arg), summary |-> LevelSummary(arg)])

NextCalls ==
    \/ CallCleanColumnName
    \/ CallParseFee
    \/ CallExtractNumTiers
    \/ CallCategorizeLevel

SpecCalls == InitCalls /\ [][NextCalls]_vars

-----------------------------------------------------------------------------
(* Properties of the helpers, checked under SpecCalls *)

Returned(helper) == fn = helper /\ done = {helper}

RECURSIVE Decimal(_, _)
Decimal(digits, acc) ==
    IF digits = <<>> THEN acc ELSE Decimal(Tail(digits), 10 * acc + DigitVal(Head(digits)))

NotComma(c) == c # ","
TwoDigitsAt(text, i) == i + 1 <= Len(text) /\ IsDigit(text[i]) /\ IsDigit(text[i + 1])

\* The leftmost run of 2 to 7 digits of a text that has two adjacent digits:
\* it starts at the first place where two digits stand, and ends before the
\* first non-digit, at the end of the text, or after 7 digits.
LeftmostRun(text) ==
    LET i == CHOOSE k \in 1..Len(text) :
                 TwoDigitsAt(text, k) /\ \A j \in 1..(k - 1) : ~TwoDigitsAt(text, j)
        n == CHOOSE m \in 2..7 :
                 /\ \A j \in i..(i + m - 1) : j <= Len(text) /\ IsDigit(text[j])
                 /\ m = 7 \/ i + m > Len(text) \/ ~IsDigit(text[i + m])
    IN  SubSeq(text, i, i + n - 1)

\* C2: parse_fee returns the missing value for a missing input and for a
\* text whose comma-free form has no two adjacent digits, and otherwise the
\* number written by the leftmost run of 2 to 7 digits of the comma-free
\* text; it never raises ("$1,200 per year" gives 1200, "25000" gives
\* 25000, "Contact for pricing" gives missing).
C2_FeeParser ==
    Returned("parse_fee") =>
        /\ LET text == IF isna(arg) THEN <<>> ELSE SelectSeq(arg, NotComma)
           IN  IF \E i \in 1..Len(text) : TwoDigitsAt(text, i)
               THEN ret = Num(Decimal(LeftmostRun(text), 0))
               ELSE ret = Missing
        /\ arg = V_1200_per_year => ret = Num(1200)
        /\ arg = V_25000 => ret = Num(25000)
        /\ arg = V_Contact_for_pricing => ret = Missing
        /\ err = ""

C2_Witness == Returned("parse_fee") /\ arg = V_1200_per_year /\ ret = Num(1200)

\* C6: the cleaned column name is the header without its leading and
\* trailing whitespace, with each run of line breaks replaced by one
\* separator and every space and separator written "_"; it holds no space,
\* newline or carriage return (" College \n" gives "College", "Fee Info"
\* gives "Fee_Info").
C6_ColumnNameCleaner ==
    Returned("clean_column_name") =>
        LET inner == {i \in 1..Len(arg) : ~IsSpace(arg[i])}
            lo == CHOOSE i \in inner : \A j \in inner : i <= j
            hi == CHOOSE i \in inner : \A j \in inner : j <= i
            core == IF inner = {} THEN <<>> ELSE SubSeq(arg, lo, hi)
            kept == {i \in 1..Len(core) :
                        ~(i > 1 /\ IsNewline(core[i]) /\ IsNewline(core[i - 1]))}
            nth(j) == CHOOSE i \in kept : Cardinality({m \in kept : m <= i}) = j
            image(c) == IF c = " " \/ IsNewline(c) THEN "_" ELSE c
        IN  /\ ret = [j \in 1..Cardinality(kept) |-> image(core[nth(j)])]
            /\ \A j \in 1..Len(ret) : ret[j] \notin {" ", "\n", "\r"}
            /\ arg = H_College => ret = College
            /\ arg = H_Fee_Info => ret = Fee_Info

C6_Witness ==
    /\ Returned("clean_column_name")
    /\ arg = <<" ", "a", "\r", "\n", "a">>
    /\ ret = <<"a", "_", "a">>

\* C7: for a Tiers_of_Membership text that is not missing, extract_num_tiers
\* returns the number of commas of the text plus one, which is at least 1
\* ("Bronze, Silver, Gold" gives 3, a text without comma gives 1).
C7_TierCounter ==
    (Returned("extract_num_tiers") /\ ~isna(arg)) =>
        /\ ret = Num(Cardinality({i \in 1..Len(arg) : arg[i] = ","}) + 1)
        /\ ret.v >= 1
        /\ arg = V_Bronze_Silver_Gold => ret = Num(3)
        /\ "," \notin Range(arg) => ret = Num(1)

C7_Witness == Returned("extract_num_tiers") /\ arg = V_Bronze_Silver_Gold /\ ret = Num(3)

\* The text has the letters c, o, l, l, e, g, e in a row, in any letter case.
HasCollege(text) ==
    \E i \in 1..(Len(text) - 6) : \A j \in 1..7 : LowerChar(text[i + j - 1]) = college[j]

RECURSIVE SumOfCounts(_)
SumOfCounts(s) == IF s = <<>> THEN 0 ELSE Head(s).count + SumOfCounts(Tail(s))

\* C8: every row's label is "ECE Programs" exactly when its Program_Level
\* text contains "college" in any letter case and "Departmental / General
\* College Programs" otherwise, and the counts of the two labels sum to the
\* number of rows.
C8_LevelCategorizer ==
    Returned("categorize_level") =>
        /\ Len(ret.Level_Group) = Len(arg)
        /\ \A r \in 1..Len(arg) :
              ret.Level_Group[r] =
                  IF ~isna(arg[r]) /\ HasCollege(arg[r])
                  THEN ECE_Programs ELSE Departmental_Programs
        /\ \A i \in 1..Len(ret.summary) :
              /\ ret.summary[i].key \in {ECE_Programs, Departmental_Programs}
              /\ ret.summary[i].count =
                     Cardinality({r \in 1..Len(arg) : ret.Level_Group[r] = ret.summary[i].key})
              /\ \A j \in 1..Len(ret.summary) : ret.summary[j].key = ret.summary[i].key => i = j
        /\ SumOfCounts(ret.summary) = Len(arg)

C8_Witness ==
    /\ Returned("categorize_level")
    /\ arg = <<V_ECE_COLLEGE, V_Department>>
    /\ ret.Level_Group = <<ECE_Programs, Departmental_Programs>>
    /\ Len(ret.summary) = 2

-----------------------------------------------------------------------------
(* Properties of the run, checked under Spec *)

Stages == Range(ScriptOrder)

\* The pieces of a text between its commas, and a text without its outer
\* whitespace, by position.
CommaPlaces(text) == {i \in 1..Len(text) : text[i] = ","}
PieceCount(text) == Cardinality(CommaPlaces(text)) + 1
NthComma(text, n) ==
    IF n = 0 THEN 0
    ELSE IF n > Cardinality(CommaPlaces(text)) THEN Len(text) + 1
    ELSE CHOOSE i \in CommaPlaces(text) : Cardinality({j \in CommaPlaces(text) : j <= i}) = n
PieceAt(text, p) == SubSeq(text, NthComma(text, p - 1) + 1, NthComma(text, p) - 1)
Trimmed(text) ==
    LET inner == {i \in 1..Len(text) : ~IsSpace(text[i])}
    IN  IF inner = {} THEN <<>>
        ELSE SubSeq(text, CHOOSE i \in inner : \A j \in inner : i <= j,
                          CHOOSE i \in inner : \A j \in inner : j <= i)

\* The number of pieces of column k in the rows before row r.
RECURSIVE PiecesBefore(_, _, _)
PiecesBefore(t, k, r) ==
    IF r = 1 THEN 0
    ELSE PiecesBefore(t, k, r - 1) + PieceCount(t.rows[r - 1].cells[k])

\* C1: right after the explode stage, a row of the cleaned table whose
\* Corporate_Partners text has k comma-separated pieces has given exactly k
\* consecutive rows of the exploded table, in order, each with one piece
\* without its outer whitespace and with every other column and the index
\* of the row; the exploded table has the sum of the k as its number of rows.
C1_Explode ==
    (scheduler = "script" /\ done = {"clean", "explode"}) =>
        LET k == ColumnIndex(df, Corporate_Partners)
        IN  /\ df_expanded.cols = df.cols
            /\ Len(df_expanded.rows) = PiecesBefore(df, k, Len(df.rows) + 1)
            /\ \A r \in 1..Len(df.rows) :
                  \A p \in 1..PieceCount(df.rows[r].cells[k]) :
                      LET row == df_expanded.rows[PiecesBefore(df, k, r) + p]
                      IN  /\ row.index = df.rows[r].index
                          /\ row.cells[k] = Trimmed(PieceAt(df.rows[r].cells[k], p))
                          /\ \A c \in 1..Len(df.cols) :
                                c # k => row.cells[c] = df.rows[r].cells[c]

C1_Witness ==
    /\ scheduler = "script"
    /\ done = {"clean", "explode"}
    /\ Len(df.cols) > 1
    /\ Len(df.rows) = 2
    /\ Column(df, Corporate_Partners) = <<V_ABC, <<"a", "c", "m", "e", " ", ",", "B">> >>
    /\ Column(df_expanded, Corporate_Partners)
         = << <<"A">>, <<"B">>, <<"C">>, <<"a", "c", "m", "e">>, <<"B">> >>

\* Every cell of the table holds a value that names at least one item.
NamesAnItem(value) ==
    /\ ~isna(value)
    /\ \E piece \in Range(split(clean_value(value))) : strip(piece) # <<>>

EveryCellNamesAnItem(t) ==
    \A r \in 1..Len(t.rows) : \A k \in 1..Len(t.rows[r].cells) :
        NamesAnItem(t.rows[r].cells[k])

\* C3, for the input tables in which every cell names an item: with a
\* Corporate_Partners column the run raises nothing whichever optional
\* columns are absent; each chart is saved exactly when its column is
\* present, a skipped chart prints its message, and the run reaches the
\* export of the cleaned table.
C3_OptionalColumnsNonFatal ==
    (scheduler = "script" /\ "clean" \in done /\ HasColumn(df, Corporate_Partners)
        /\ EveryCellNamesAnItem(raw)) =>
        /\ err = ""
        /\ "partners_per_college" \in done =>
              /\ "partners_per_college.png" \in files <=> HasColumn(df, College)
              /\ "Skipping partners-per-college chart" \in printed <=> ~HasColumn(df, College)
        /\ "sector_frequency" \in done =>
              /\ "sector_frequency.png" \in files <=> possible_sector_cols(df) # <<>>
              /\ "Skipping sector analysis" \in printed <=> possible_sector_cols(df) = <<>>
        /\ "membership_tiers" \in done =>
              /\ "membership_tier_count_distribution.png" \in files
                    <=> HasColumn(df, Tiers_of_Membership)
              /\ "Column 'Tiers_of_Membership' not found!" \in printed
                    <=> ~HasColumn(df, Tiers_of_Membership)
        /\ "membership_fees" \in done =>
              /\ "membership_fees.png" \in files <=> HasColumn(df, Fee_Info)
              /\ "membership_fees_dist.png" \in files <=> HasColumn(df, Fee_Info)
              /\ "Skipping fee analysis" \in printed <=> ~HasColumn(df, Fee_Info)
        /\ "program_level" \in done =>
              /\ "dept_vs_ece_comparison.png" \in files <=> HasColumn(df, Program_Level)
              /\ "Column 'Program_Level' not found!" \in printed <=> ~HasColumn(df, Program_Level)
        /\ "company_frequency" \in done => "company_frequency_distribution.png" \in files
        /\ "export" \in done => "ece_partnerships_cleaned.csv" \in files
        /\ done = Stages \/ showing \/ \E stage \in Stages : Turn(stage)

\* C4: when the cleaned table has no Corporate_Partners column, the explode
\* stage is the next and last step of the run: it raises KeyError, no stage
\* after it runs, and no chart and no cleaned CSV is ever written.
C4_MandatoryColumn ==
    (scheduler = "script" /\ "clean" \in done /\ ~HasColumn(df, Corporate_Partners)) =>
        /\ done = {"clean"}
        /\ err \in {"", "KeyError"}
        /\ err = "" => ENABLED Explode
        /\ err = "KeyError" => ~ENABLED Next
        /\ files = {}
        /\ csv = EmptyCsv
        /\ df_expanded = EmptyTable

C4_Witness ==
    /\ scheduler = "script"
    /\ done = {"clean"}
    /\ ~HasColumn(df, Corporate_Partners)
    /\ HasColumn(df, College)
    /\ err = "KeyError"

\* The row of the input table that row r of the shared table comes from.
RawRow(r) == raw.rows[df.rows[r].index + 1]
AllMissing(row) == \A k \in 1..Len(row.cells) : isna(row.cells[k])

\* C9: a cell that is missing in the input is missing after load-and-clean,
\* so a row missing in every column is dropped, a row with no tiers is in
\* no bucket of the tier distribution, a row with no fee is not in the box
\* plot's data, and a row with no partners adds no company name.
C9_MissingValuesSurvive ==
    (scheduler = "script" /\ "clean" \in done) =>
        /\ \A r \in 1..Len(df.rows) :
              \A k \in 1..Len(raw.cols) : isna(RawRow(r).cells[k]) => isna(df.rows[r].cells[k])
        /\ \A q \in 1..Len(raw.rows) :
              AllMissing(raw.rows[q]) =>
                  \A r \in 1..Len(df.rows) : df.rows[r].index # raw.rows[q].index
        /\ ("membership_tiers" \in done /\ HasColumn(df, Tiers_of_Membership)) =>
              SumOfCounts(tier_counts) =
                  Cardinality({r \in 1..Len(df.rows) :
                                  ~isna(RawRow(r).cells[ColumnIndex(df, Tiers_of_Membership)])})
        /\ ("membership_fees" \in done /\ HasColumn(df, Fee_Info)) =>
              \A i \in 1..Len(fee_df) :
                  ~isna(raw.rows[fee_df[i].index + 1].cells[ColumnIndex(df, Fee_Info)])
        /\ "company_frequency" \in done =>
              SumOfCounts(company_freq) =
                  Cardinality(UNION {
                      {<<r, p>> : p \in {n \in 1..PieceCount(RawRow(r).cells[ColumnIndex(df, Corporate_Partners)]) :
                                            Trimmed(PieceAt(RawRow(r).cells[ColumnIndex(df, Corporate_Partners)], n)) # <<>>}}
                      : r \in {q \in 1..Len(df.rows) :
                                  ~isna(RawRow(q).cells[ColumnIndex(df, Corporate_Partners)])}})

\* C10: after the sector stage on a table with a sector or industry column,
\* the count of a sector name is the number of pairs (row of the exploded
\* table, comma-separated piece of the row's sector text) whose piece
\* without outer whitespace is the name; every such non-empty name is
\* listed once, no listed name is empty or has count 0, and the counts do
\* not increase down the list.
C10_SectorFrequency ==
    (scheduler = "script" /\ "sector_frequency" \in done
        /\ possible_sector_cols(df_expanded) # <<>>) =>
        LET k == ColumnIndex(df_expanded, possible_sector_cols(df_expanded)[1])
            text(r) == df_expanded.rows[r].cells[k]
            pairs == UNION {{<<r, p>> : p \in 1..PieceCount(text(r))} :
                                r \in 1..Len(df_expanded.rows)}
            name(pair) == Trimmed(PieceAt(text(pair[1]), pair[2]))
        IN  /\ \A i \in 1..Len(sector_freq) :
                  /\ sector_freq[i].key # <<>>
                  /\ sector_freq[i].count > 0
                  /\ sector_freq[i].count =
                         Cardinality({pair \in pairs : name(pair) = sector_freq[i].key})
                  /\ \A j \in 1..Len(sector_freq) :
                        /\ sector_freq[j].key = sector_freq[i].key => i = j
                        /\ i < j => sector_freq[i].count >= sector_freq[j].count
            /\ \A pair \in pairs :
                  name(pair) # <<>> =>
                      \E i \in 1..Len(sector_freq) : sector_freq[i].key = name(pair)

C10_Witness ==
    /\ scheduler = "script"
    /\ "sector_frequency" \in done
    /\ sector_freq = << [key |-> V_Chips, count |-> 5], [key |-> <<"A", "I">>, count |-> 3] >>

-----------------------------------------------------------------------------
(* Properties of the stages in any order, checked under SpecAnyOrder *)

\* The stages that read the exploded table (lines 45, 68, 294), and the
\* stages that add a column to the shared table (lines 119, 228).
NeedExploded == {"partners_per_college", "sector_frequency", "export"}
AddColumn_Stages == {"membership_tiers", "program_level"}

\* The exception the table makes a stage raise, "" when it makes it raise
\* none: lines 40 and 37 for the explode stage, line 179 for the fee stage,
\* lines 261 and 282 for the company stage.
TableRaises(stage, cleaned) ==
    CASE stage = "explode" ->
            IF ~HasColumn(cleaned, Corporate_Partners) THEN "KeyError"
            ELSE IF \A r \in 1..Len(cleaned.rows) :
                        isna(Column(cleaned, Corporate_Partners)[r])
                 THEN "AttributeError" ELSE ""
      [] stage = "membership_fees" ->
            IF HasColumn(cleaned, Fee_Info) /\ ~HasColumn(cleaned, College)
            THEN "ValueError" ELSE ""
      [] stage = "company_frequency" ->
            IF ~HasColumn(cleaned, Corporate_Partners) THEN "KeyError"
            ELSE IF \A r \in 1..Len(cleaned.rows) :
                        \A p \in 1..PieceCount(Column(cleaned, Corporate_Partners)[r]) :
                            Trimmed(PieceAt(Column(cleaned, Corporate_Partners)[r], p)) = <<>>
                 THEN "TypeError" ELSE ""
      [] OTHER -> ""

\* Every completed chart stage has the output the stage has in the script
\* order: the output computed from the cleaned table and the table exploded
\* from it.
SameChartsAsScript(cleaned, exploded) ==
        /\ "partners_per_college" \in done =>
              IF HasColumn(cleaned, College)
              THEN /\ partners_per_college = PartnersPerCollege(exploded)
                   /\ "partners_per_college.png" \in files
              ELSE /\ "partners_per_college.png" \notin files
                   /\ "Skipping partners-per-college chart" \in printed
        /\ "sector_frequency" \in done =>
              IF possible_sector_cols(cleaned) # <<>>
              THEN /\ sector_freq = SectorFrequency(FillSector(exploded))
                   /\ "sector_frequency.png" \in files <=> sector_freq # <<>>
              ELSE /\ "sector_frequency.png" \notin files
                   /\ "Skipping sector analysis" \in printed
        /\ "membership_tiers" \in done =>
              IF HasColumn(cleaned, Tiers_of_Membership)
              THEN /\ tier_counts = TierCounts(cleaned)
                   /\ "membership_tier_count_distribution.png" \in files
              ELSE /\ "membership_tier_count_distribution.png" \notin files
                   /\ "Column 'Tiers_of_Membership' not found!" \in printed
        /\ "membership_fees" \in done =>
              IF HasColumn(cleaned, Fee_Info)
              THEN /\ fee_df = FeeBoxData(cleaned)
                   /\ fee_hist = FeeHistData(cleaned)
                   /\ {"membership_fees.png", "membership_fees_dist.png"} \subseteq files
              ELSE /\ {"membership_fees.png", "membership_fees_dist.png"} \cap files = {}
                   /\ "Skipping fee analysis" \in printed
        /\ "program_level" \in done =>
              IF HasColumn(cleaned, Program_Level)
              THEN /\ summary = LevelSummary(Column(cleaned, Program_Level))
                   /\ "dept_vs_ece_comparison.png" \in files
              ELSE /\ "dept_vs_ece_comparison.png" \notin files
                   /\ "Column 'Program_Level' not found!" \in printed
        /\ "company_frequency" \in done =>
              /\ company_freq = CompanyFrequency(cleaned)
              /\ "company_frequency_distribution.png" \in files

\* The exploded table has the columns of the cleaned table, and the exported
\* file is the one the script order writes.
SameExportAsScript(cleaned, exploded) ==
    LET exported == IF possible_sector_cols(exploded) # <<>>
                    THEN FillSector(exploded) ELSE exploded
    IN  /\ "explode" \in done => df_expanded.cols = cleaned.cols
        /\ "export" \in done =>
              /\ csv = to_csv(exported)
              /\ "ece_partnerships_cleaned.csv" \in files

SameAsScript ==
    LET cleaned == CleanTable(raw)
        exploded == ExplodeTable(cleaned)
    IN  SameChartsAsScript(cleaned, exploded) /\ SameExportAsScript(cleaned, exploded)

=============================================================================
